---- MODULE Spec2Model ----
(***************************************************************************)
(* Model of src/tools/valuation_analysis.py: the DCF engine                *)
(* _calculate_dcf_value and the tool calculate_dcf_valuation that feeds it.*)
(*                                                                         *)
(* Numbers.  The engine computes on floats.  A float is modelled as a       *)
(* decimal fixed-point number: the integer v stands for v / Scale, and     *)
(* every multiplication, division and power rounds its exact result to the *)
(* nearest multiple of 1 / Scale, as a float operation rounds to the       *)
(* nearest float (a root is rounded down).  0.15 is 1500, 0.025 is 250 and *)
(* 100.0 is 1000000.  Inf, NegInf and NaN stand for the IEEE values.       *)
(*                                                                         *)
(* float_type is the type of the numbers in the cash-flow list: "float"    *)
(* (the declared List[float]) or "numpy.float64" (what pd.to_numeric hands *)
(* the tool for a cell read from a DataFrame).  The two differ in a        *)
(* division by zero: a Python float raises ZeroDivisionError, a            *)
(* numpy.float64 warns and yields inf or nan.                              *)
(***************************************************************************)
EXTENDS Integers, Sequences, FiniteSets

(***************************************************************************)
(* Bounds of the model.                                                    *)
(***************************************************************************)
\* longest cash-flow list handed to the engine
MaxLen == 3
\* largest forecast_years handed to the engine
MaxYears == 2
\* largest years_back handed to the tool
MaxYearsBack == 3

\* forecast_years: int = 5
DefaultForecastYears == 5

(***************************************************************************)
(* Fixed-point arithmetic.                                                 *)
(***************************************************************************)
Scale == 10 ^ 4
One == Scale

Abs(x) == IF x < 0 THEN -x ELSE x
Sign(x) == IF x < 0 THEN -1 ELSE 1

RECURSIVE GCD(_, _)
GCD(a, b) == IF b = 0 THEN a ELSE GCD(b, a % b)

\* x / c rounded to the nearest integer, for x >= 0 and c > 0
RoundDiv(x, c) == (x + (c \div 2)) \div c

\* a * b / c rounded to the nearest integer, for a, b >= 0 and c > 0,
\* computed without forming a * b
MulDiv(a, b, c) == (a \div c) * b + RoundDiv((a % c) * b, c)

\* float multiplication  a * b
FMul(a, b) == Sign(a) * Sign(b) * MulDiv(Abs(a), Abs(b), Scale)

\* the IEEE values outside the finite range
Inf == 2 * (2 ^ 30 - 1) + 1
NegInf == -Inf
NaN == Inf - 1
IsFinite(x) == x \notin {Inf, NegInf, NaN}

\* float division  a / b  of finite a by finite b # 0
FiniteDiv(a, b) ==
    LET g == GCD(Abs(a), Abs(b))
        n == Abs(a) \div g
        m == Abs(b) \div g
    IN  Sign(a) * Sign(b) * MulDiv(n, Scale, m)

\* float division  a / b  of a numpy.float64 a by a finite b (b = 0 is +0.0);
\* a Python float a behaves the same but for b = 0, where it raises
FDiv(a, b) ==
    IF a = NaN THEN NaN
    ELSE IF b = 0 THEN (IF a = 0 THEN NaN ELSE IF a > 0 THEN Inf ELSE NegInf)
    ELSE IF a \in {Inf, NegInf} THEN (IF b > 0 THEN a ELSE -a)
    ELSE FiniteDiv(a, b)

\* float addition  a + b
FAdd(a, b) ==
    IF a = NaN \/ b = NaN THEN NaN
    ELSE IF {a, b} = {Inf, NegInf} THEN NaN
    ELSE IF a \in {Inf, NegInf} THEN a
    ELSE IF b \in {Inf, NegInf} THEN b
    ELSE a + b

\* float power  x ** k  with an integer exponent k >= 0
RECURSIVE FPow(_, _)
FPow(x, k) == IF k = 0 THEN One ELSE FMul(FPow(x, k - 1), x)

\* the largest r in lo..hi with r ** m <= x  (lo ** m <= x is given)
RECURSIVE RootSearch(_, _, _, _)
RootSearch(x, m, lo, hi) ==
    IF lo >= hi THEN lo
    ELSE LET mid == (lo + hi + 1) \div 2
         IN  IF FPow(mid, m) <= x THEN RootSearch(x, m, mid, hi)
             ELSE RootSearch(x, m, lo, mid - 1)

\* float power  x ** (1 / m)  for x > 0 and an integer m >= 1
FRoot(x, m) == RootSearch(x, m, 0, IF x > One THEN x ELSE One)

Min(a, b) == IF a <= b THEN a ELSE b

\* sum(s)
RECURSIVE Sum(_)
Sum(s) == IF Len(s) = 0 THEN 0 ELSE FAdd(Sum(SubSeq(s, 1, Len(s) - 1)), s[Len(s)])

\* a whole amount as a float
Amount(n) == n * Scale

\* the type of the numbers in the cash-flow list
VARIABLE float_type

(***************************************************************************)
(* The DCF engine, _calculate_dcf_value.                                   *)
(***************************************************************************)
\* the cap on the forecast growth rate, 0.15
GrowthCap == (15 * Scale) \div 100

\* mutants: the filter keeps zero; the filter is left out
PositiveCashFlows_KeepZero(cash_flows) == SelectSeq(cash_flows, LAMBDA cf : cf >= 0)
PositiveCashFlows_Unfiltered(cash_flows) == cash_flows

\* [cf for cf in cash_flows if cf > 0]
PositiveCashFlows(cash_flows) == SelectSeq(cash_flows, LAMBDA cf : cf > 0)

\* mutant: the periods are counted as len(cash_flows)
HistoricalGrowth_OnePeriodMore(positive) ==
    FRoot(FiniteDiv(positive[Len(positive)], positive[1]), Len(positive)) - One

\* (cash_flows[-1] / cash_flows[0]) ** (1 / (len(cash_flows) - 1)) - 1
HistoricalGrowth(positive) ==
    FRoot(FiniteDiv(positive[Len(positive)], positive[1]), Len(positive) - 1) - One

\* mutant: the cap is left out
ForecastGrowthRate_Uncapped(historical_growth) == historical_growth

\* min(historical_growth, 0.15)
ForecastGrowthRate(historical_growth) == Min(historical_growth, GrowthCap)

\* mutant: the years are counted from 0
ProjectedCashFlows_FromZero(last_cf, forecast_growth_rate, forecast_years) ==
    [year \in 1..forecast_years |->
        FMul(last_cf, FPow(One + forecast_growth_rate, year - 1))]

\* last_cf * (1 + forecast_growth_rate) ** year  for year in 1..forecast_years
ProjectedCashFlows(last_cf, forecast_growth_rate, forecast_years) ==
    [year \in 1..forecast_years |->
        FMul(last_cf, FPow(One + forecast_growth_rate, year))]

\* mutant: the two rates of the divisor are swapped
TerminalValue_Swapped(projected, terminal_growth_rate, discount_rate) ==
    FDiv(FMul(projected[Len(projected)], One + terminal_growth_rate),
         terminal_growth_rate - discount_rate)

\* projected_cash_flows[-1] * (1 + terminal_growth_rate)
\*     / (discount_rate - terminal_growth_rate)
TerminalValue(projected, terminal_growth_rate, discount_rate) ==
    FDiv(FMul(projected[Len(projected)], One + terminal_growth_rate),
         discount_rate - terminal_growth_rate)

\* mutant: enumerate counts from 0
PresentValues_FromZero(projected, discount_rate) ==
    [i \in 1..Len(projected) |->
        FDiv(projected[i], FPow(One + discount_rate, i - 1))]

\* cf / (1 + discount_rate) ** i  for i, cf in enumerate(projected, 1)
PresentValues(projected, discount_rate) ==
    [i \in 1..Len(projected) |-> FDiv(projected[i], FPow(One + discount_rate, i))]

\* terminal_value / (1 + discount_rate) ** forecast_years
PresentTerminalValue(terminal_value, discount_rate, forecast_years) ==
    FDiv(terminal_value, FPow(One + discount_rate, forecast_years))

\* mutant: the terminal value is left out
EnterpriseValue_NoTerminal(pv_cash_flows, pv_terminal) == Sum(pv_cash_flows)

\* sum(pv_cash_flows) + pv_terminal
EnterpriseValue(pv_cash_flows, pv_terminal) == FAdd(Sum(pv_cash_flows), pv_terminal)

\* mutant: line 36 filters the list it was handed in place
CallersListAfter_FilteredInPlace(cash_flows) == PositiveCashFlows(cash_flows)

\* The list the caller handed over, after line 36:
\*   cash_flows = [cf for cf in cash_flows if cf > 0]
\* builds a new list and binds the local name to it; the caller's list is not
\* written to, here or anywhere else in the function.
CallersListAfter(cash_flows) == cash_flows

\* Lines 41 to 76, on the filtered list.  The returned dict is a record; an
\* exception leaving the function is the record [raised |-> its type].
Valuation(positive, terminal_growth_rate, discount_rate, forecast_years) ==
    LET historical_growth == HistoricalGrowth(positive)
        forecast_growth_rate == ForecastGrowthRate(historical_growth)
        last_cf == positive[Len(positive)]
        projected_cash_flows ==
            ProjectedCashFlows(last_cf, forecast_growth_rate, forecast_years)
        terminal_value ==
            TerminalValue(projected_cash_flows, terminal_growth_rate, discount_rate)
        pv_cash_flows == PresentValues(projected_cash_flows, discount_rate)
        pv_terminal ==
            PresentTerminalValue(terminal_value, discount_rate, forecast_years)
    IN  IF Len(projected_cash_flows) = 0
        THEN [raised |-> "IndexError"]            \* projected_cash_flows[-1]
        ELSE IF float_type = "float" /\ discount_rate - terminal_growth_rate = 0
        THEN [raised |-> "ZeroDivisionError"]     \* terminal_cf / 0.0
        ELSE IF float_type = "float" /\ One + discount_rate = 0
        THEN [raised |-> "ZeroDivisionError"]     \* cf / 0.0 ** i
        ELSE [enterprise_value |-> EnterpriseValue(pv_cash_flows, pv_terminal),
              pv_cash_flows |-> Sum(pv_cash_flows),
              pv_terminal_value |-> pv_terminal,
              terminal_value |-> terminal_value,
              forecast_growth_rate |-> forecast_growth_rate,
              historical_growth |-> historical_growth,
              projected_cash_flows |-> projected_cash_flows]

\* if len(cash_flows) < 2: return {"error": ...}
TooFewCashFlows == [error |-> "Insufficient cash flow data for DCF calculation"]
\* if len(cash_flows) < 2, after the filter
TooFewPositiveCashFlows == [error |-> "Insufficient positive cash flow data"]

_calculate_dcf_value(cash_flows, terminal_growth_rate, discount_rate, forecast_years) ==
    IF Len(cash_flows) < 2
    THEN TooFewCashFlows
    ELSE
    LET positive == PositiveCashFlows(cash_flows) IN
    IF Len(positive) < 2
    THEN TooFewPositiveCashFlows
    ELSE Valuation(positive, terminal_growth_rate, discount_rate, forecast_years)

\* mutant: the list is left in the order of the loop
Reverse_NotDone(s) == s

\* a list reversed, list.reverse()
Reverse(s) == [k \in 1..Len(s) |-> s[Len(s) + 1 - k]]

(***************************************************************************)
(* The tool calculate_dcf_valuation.  A returned string is the sequence of *)
(* its parts; a number shown in the report is the number itself, not its   *)
(* digits.                                                                 *)
(***************************************************************************)
\* the fields probed for the annual cash flow, in order
cf_fields == <<"manageCashFlow", "operatingCashFlow", "NCFFromOA">>

\* mutant: the loop has no break, the last field with a value wins
RECURSIVE ProbeFrom_NoBreak(_, _)
ProbeFrom_NoBreak(row, k) ==
    IF k > Len(cf_fields) THEN << >>
    ELSE LET later == ProbeFrom_NoBreak(row, k + 1)
         IN  IF later # << >> THEN later
             ELSE IF cf_fields[k] \in DOMAIN row /\ row[cf_fields[k]] # NaN
                  THEN <<row[cf_fields[k]]>>
                  ELSE << >>

\* pd.to_numeric(cell, errors='coerce'): a cell that is not a number is NaN
\* the first field of cf_fields that the row has with a value that is not NaN:
\* <<value>>, or << >> for None
RECURSIVE ProbeFrom(_, _)
ProbeFrom(row, k) ==
    IF k > Len(cf_fields) THEN << >>
    ELSE IF cf_fields[k] \in DOMAIN row /\ row[cf_fields[k]] # NaN
         THEN <<row[cf_fields[k]]>>
         ELSE ProbeFrom(row, k + 1)

AnnualCashFlow(row) == ProbeFrom(row, 1)

(***************************************************************************)
(* The probing of calculate_peg_ratio for the growth rate.                 *)
(***************************************************************************)
\* the fields probed for the growth rate, in order
growth_columns == <<"YOYNI", "YOYProfit", "YOYEPSBasic">>

\* for col in growth_columns: the first column that growth_data has with a rate
\* that is not NaN and not 0: <<growth_rate, growth_field>>, or << >> for None
RECURSIVE GrowthProbeFrom(_, _)
GrowthProbeFrom(growth_data, k) ==
    IF k > Len(growth_columns) THEN << >>
    ELSE IF /\ growth_columns[k] \in DOMAIN growth_data
            /\ growth_data[growth_columns[k]] # NaN
            /\ growth_data[growth_columns[k]] # 0
         THEN <<growth_data[growth_columns[k]], growth_columns[k]>>
         ELSE GrowthProbeFrom(growth_data, k + 1)

GrowthRate(growth_data) == GrowthProbeFrom(growth_data, 1)

\* mutant: the outer handler lets the exception through
ToolExcept_Propagate(e) == [propagated |-> e]

\* except Exception as e: return f"Error: Failed to calculate DCF valuation: {e}"
ToolExcept(e) == [returned |-> <<"Error: ", "Failed to calculate DCF valuation: ", e>>]

\* return f"Error: Insufficient cash flow data for DCF calculation (need at least 2 years)"
InsufficientYears ==
    [returned |-> <<"Error: ",
                    "Insufficient cash flow data for DCF calculation (need at least 2 years)">>]

\* return f"Error: {dcf_result['error']}"
EngineError(dcf_result) == [returned |-> <<"Error: ", dcf_result.error>>]

\* the report; current_price is <<price>> or << >> for None
Report(name, code, rate, growth, flows, years, dcf_result, current_price) ==
    [returned |->
        <<"# ", name, code, rate, growth, "5", Len(flows)>>
        \o years
        \o <<dcf_result.historical_growth, dcf_result.forecast_growth_rate,
             dcf_result.pv_cash_flows, dcf_result.pv_terminal_value,
             dcf_result.enterprise_value>>
        \o current_price
        \o <<"disclaimer">>]

(***************************************************************************)
(* Inputs.                                                                 *)
(***************************************************************************)
CashValues == {Amount(-50), 0, Amount(100), Amount(110), Amount(121), Amount(1000)}

RECURSIVE SeqsUpTo(_, _)
SeqsUpTo(S, n) ==
    IF n = 0 THEN {<< >>}
    ELSE LET shorter == SeqsUpTo(S, n - 1)
         IN  shorter \cup {Append(s, x) : s \in {q \in shorter : Len(q) = n - 1}, x \in S}

CashFlowLists == SeqsUpTo(CashValues, MaxLen)

FloatTypes == {"float", "numpy.float64"}

\* 0, 0.025, 0.10
TerminalRates == {0, 250, 1000}
\* -1, 0, 0.025, 0.10, 0.20
DiscountRates == {-One, 0, 250, 1000, 2000}

\* the security the tool is asked about, and the name the data source has for it
Code == "sh.600000"
CodeName == "PF Bank"

\* what a cell of a cash-flow row can hold, after pd.to_numeric
CellValues == {NaN, Amount(-50), Amount(100), Amount(110)}
\* the rows a cash-flow query can answer with: any of the probed fields, any cells
CashFlowRows ==
    UNION {[fields -> CellValues] : fields \in SUBSET {cf_fields[k] : k \in 1..Len(cf_fields)}}
\* the close of the last price row, after pd.to_numeric
CloseValues == {NaN, Amount(12)}
\* the rates the tool is called with: 0.025 and 0.10
ToolRates == {250, 1000}
\* datetime.now().year
CurrentYears == {2025, 2026}
\* the exceptions of the data source
DataSourceErrors == {"NoDataFoundError", "DataSourceError"}

VARIABLES
    pc,                    \* where the caller is
    cash_flows,            \* the caller's list
    terminal_growth_rate,
    discount_rate,
    forecast_years,
    result,                \* what the engine returned or raised
    years_back,            \* the tool's argument
    current_year,
    stock_name,
    i,                     \* the tool's loop index
    years_data,            \* the (year, cash flow) pairs collected
    exception,             \* the exception that reached the tool's handler
    ret,                   \* what the tool returned
    callers,               \* the calls of the engine under way on one list
    fetches,               \* the cash-flow queries the data source has answered
    probe                  \* a row of each kind and what the probing took from it

engine_vars == <<cash_flows, terminal_growth_rate, discount_rate, forecast_years,
                 float_type, result>>
tool_vars == <<years_back, current_year, stock_name, i, years_data, exception, ret>>
vars == <<pc, engine_vars, tool_vars, callers, fetches, probe>>

NoResult == [none |-> TRUE]
NoException == "none"

(***************************************************************************)
(* A caller of the engine.                                                 *)
(***************************************************************************)
Init ==
    /\ pc = "call"
    /\ cash_flows \in CashFlowLists
    /\ terminal_growth_rate \in TerminalRates
    /\ discount_rate \in DiscountRates
    /\ forecast_years \in 0..MaxYears
    /\ float_type \in FloatTypes
    /\ result = NoResult
    /\ years_back = 0
    /\ current_year = 2026
    /\ stock_name = Code
    /\ i = 0
    /\ years_data = << >>
    /\ exception = NoException
    /\ ret = NoResult
    /\ callers = << >>
    /\ fetches = << >>
    /\ probe = << >>

Call ==
    /\ pc = "call"
    /\ result' = _calculate_dcf_value(cash_flows, terminal_growth_rate,
                                      discount_rate, forecast_years)
    /\ cash_flows' = IF Len(cash_flows) < 2 THEN cash_flows
                                            ELSE CallersListAfter(cash_flows)
    /\ pc' = "returned"
    /\ UNCHANGED <<terminal_growth_rate, discount_rate, forecast_years, float_type>>
    /\ UNCHANGED <<tool_vars, callers, fetches, probe>>

Next == Call

Spec == Init /\ [][Next]_vars

(***************************************************************************)
(* A caller of the engine with rates the engine does not check: discount   *)
(* rates at or below the terminal growth rate, and rates at or below -1.   *)
(***************************************************************************)
\* -2, -1, 0, 0.025, 0.10
UncheckedTerminalRates == {-(One + One), -One, 0, 250, 1000}
\* -3, -2, -1, 0, 0.025, 0.10, 0.20
UncheckedDiscountRates == {-(One + One + One), -(One + One), -One, 0, 250, 1000, 2000}

UncheckedInit ==
    /\ pc = "call"
    /\ cash_flows \in CashFlowLists
    /\ terminal_growth_rate \in UncheckedTerminalRates
    /\ discount_rate \in UncheckedDiscountRates
    /\ forecast_years \in 0..MaxYears
    /\ float_type \in FloatTypes
    /\ result = NoResult
    /\ years_back = 0
    /\ current_year = 2026
    /\ stock_name = Code
    /\ i = 0
    /\ years_data = << >>
    /\ exception = NoException
    /\ ret = NoResult
    /\ callers = << >>
    /\ fetches = << >>
    /\ probe = << >>

UncheckedSpec == UncheckedInit /\ [][Next]_vars

(***************************************************************************)
(* A call of the tool.  Each query of the data source answers with rows,   *)
(* with an empty result, or raises.                                        *)
(***************************************************************************)
ToolInit ==
    /\ pc = "basic_info"
    /\ years_back \in 0..MaxYearsBack
    /\ discount_rate \in ToolRates
    /\ terminal_growth_rate \in ToolRates
    /\ forecast_years = DefaultForecastYears
    /\ float_type \in FloatTypes
    /\ current_year \in CurrentYears
    /\ stock_name = Code
    /\ cash_flows = << >>
    /\ years_data = << >>
    /\ i = 0
    /\ result = NoResult
    /\ exception = NoException
    /\ ret = NoResult
    /\ callers = << >>
    /\ fetches = << >>
    /\ probe = << >>

\* an exception reaches the handler of the tool, which returns
Handle(e) ==
    /\ exception' = e
    /\ ret' = ToolExcept(e)
    /\ pc' = "done"

\* basic_info = active_data_source.get_stock_basic_info(code=code)
\* stock_name = basic_info['code_name'].values[0] if not basic_info.empty else code
GetStockBasicInfo ==
    /\ pc = "basic_info"
    /\ \/ /\ stock_name' = CodeName
          /\ pc' = "fetch"
          /\ UNCHANGED <<exception, ret>>
       \/ /\ stock_name' = Code
          /\ pc' = "fetch"
          /\ UNCHANGED <<exception, ret>>
       \/ /\ \E e \in DataSourceErrors : Handle(e)
          /\ UNCHANGED stock_name
    /\ UNCHANGED <<engine_vars, years_back, current_year, i, years_data, callers,
                   fetches, probe>>

\* mutant: an exception of a cash-flow query reaches the handler of the tool
FetchExcept_Abort(e) == Handle(e)

\* except: continue   around the body of the loop
FetchExcept(e) == UNCHANGED <<pc, exception, ret>>

\* what the data source answered to the query for a year: "rows", "empty" or
\* "raised", and for rows the value the probing found, <<value>> or << >>
Fetched(year, outcome, annual_cf) ==
    [year |-> year, outcome |-> outcome, annual_cf |-> annual_cf]

\* one turn of  for i in range(years_back)
FetchYear ==
    /\ pc = "fetch"
    /\ i < years_back
    /\ LET year == current_year - i - 1
       IN  \/ \E row \in CashFlowRows :
                LET annual_cf == AnnualCashFlow(row)
                IN  /\ IF annual_cf # << >>
                       THEN /\ cash_flows' = Append(cash_flows, annual_cf[1])
                            /\ years_data' = Append(years_data, <<year, annual_cf[1]>>)
                       ELSE UNCHANGED <<cash_flows, years_data>>
                    /\ fetches' = Append(fetches, Fetched(year, "rows", annual_cf))
                    /\ UNCHANGED <<pc, exception, ret>>
           \/ /\ UNCHANGED <<cash_flows, years_data>>     \* cf_data.empty
              /\ fetches' = Append(fetches, Fetched(year, "empty", << >>))
              /\ UNCHANGED <<pc, exception, ret>>
           \/ /\ \E e \in DataSourceErrors : FetchExcept(e)
              /\ UNCHANGED <<cash_flows, years_data>>
              /\ fetches' = Append(fetches, Fetched(year, "raised", << >>))
    /\ i' = i + 1
    /\ UNCHANGED <<terminal_growth_rate, discount_rate, forecast_years, float_type,
                   result, years_back, current_year, stock_name, callers, probe>>

\* after the loop: the check of the length, the reversals and the engine
Valuate ==
    /\ pc = "fetch"
    /\ i >= years_back
    /\ IF Len(cash_flows) < 2
       THEN /\ ret' = InsufficientYears
            /\ pc' = "done"
            /\ UNCHANGED <<cash_flows, years_data, result, exception>>
       ELSE LET dcf_result ==
                    _calculate_dcf_value(Reverse(cash_flows), terminal_growth_rate,
                                         discount_rate, DefaultForecastYears)
            IN  /\ cash_flows' = CallersListAfter(Reverse(cash_flows))
                /\ years_data' = Reverse(years_data)
                /\ result' = dcf_result
                /\ IF "raised" \in DOMAIN dcf_result
                   THEN Handle(dcf_result.raised)
                   ELSE IF "error" \in DOMAIN dcf_result
                   THEN /\ ret' = EngineError(dcf_result)
                        /\ pc' = "done"
                        /\ UNCHANGED exception
                   ELSE /\ pc' = "price"
                        /\ UNCHANGED <<exception, ret>>
    /\ UNCHANGED <<terminal_growth_rate, discount_rate, forecast_years, float_type,
                   years_back, current_year, stock_name, i, callers, fetches, probe>>

\* price_data = active_data_source.get_historical_k_data(...), then the report
GetPrice ==
    /\ pc = "price"
    /\ \/ \E close \in CloseValues :
            /\ ret' = Report(stock_name, Code, discount_rate, terminal_growth_rate,
                             cash_flows, years_data, result, <<close>>)
            /\ pc' = "done"
            /\ UNCHANGED exception
       \/ /\ ret' = Report(stock_name, Code, discount_rate, terminal_growth_rate,
                           cash_flows, years_data, result, << >>)
          /\ pc' = "done"
          /\ UNCHANGED exception
       \/ \E e \in DataSourceErrors : Handle(e)
    /\ UNCHANGED <<engine_vars, years_back, current_year, stock_name, i, years_data,
                   callers, fetches, probe>>

ToolNext == GetStockBasicInfo \/ FetchYear \/ Valuate \/ GetPrice

ToolSpec == ToolInit /\ [][ToolNext]_vars

\* The loop is sequential code and every query of the data source answers or
\* raises: a turn of the loop that can be taken is taken.
ToolFairSpec == ToolSpec /\ WF_vars(FetchYear)

(***************************************************************************)
(* Several calls of the engine under way at once on one list, as threads   *)
(* of one process make them.  A call reads the list it was handed at line  *)
(* 32 and at line 36; everything after line 36 works on the call's own     *)
(* names.  The calls take their steps in any order.                        *)
(***************************************************************************)
Callers == {"a", "b"}

\* what a caller passes besides the list
CallerArguments ==
    [terminal_growth_rate : ToolRates, discount_rate : ToolRates,
     forecast_years : {MaxYears}]

\* a call that has not started; alone is what the call returns when no other
\* call is under way
NewCall(list, arguments) ==
    [pc |-> "check",
     arguments |-> arguments,
     positive |-> << >>,
     result |-> NoResult,
     alone |-> _calculate_dcf_value(list, arguments.terminal_growth_rate,
                                    arguments.discount_rate, arguments.forecast_years)]

CallersInit ==
    /\ pc = "callers"
    /\ cash_flows \in CashFlowLists
    /\ float_type \in FloatTypes
    /\ \E arguments \in [Callers -> CallerArguments] :
          callers = [c \in Callers |-> NewCall(cash_flows, arguments[c])]
    /\ terminal_growth_rate = 0
    /\ discount_rate = 0
    /\ forecast_years = 0
    /\ result = NoResult
    /\ years_back = 0
    /\ current_year = 2026
    /\ stock_name = Code
    /\ i = 0
    /\ years_data = << >>
    /\ exception = NoException
    /\ ret = NoResult
    /\ fetches = << >>
    /\ probe = << >>

\* what no step of these calls touches
not_of_callers == <<pc, terminal_growth_rate, discount_rate, forecast_years, float_type,
                    result, tool_vars, fetches, probe>>

\* if len(cash_flows) < 2: return {"error": ...}
CheckLength(c) ==
    /\ callers[c].pc = "check"
    /\ callers' = IF Len(cash_flows) < 2
                  THEN [callers EXCEPT ![c].pc = "returned",
                                       ![c].result = TooFewCashFlows]
                  ELSE [callers EXCEPT ![c].pc = "filter"]
    /\ UNCHANGED <<cash_flows, not_of_callers>>

\* cash_flows = [cf for cf in cash_flows if cf > 0]
\* if len(cash_flows) < 2: return {"error": ...}
Filter(c) ==
    /\ callers[c].pc = "filter"
    /\ LET positive == PositiveCashFlows(cash_flows)
       IN  callers' = IF Len(positive) < 2
                      THEN [callers EXCEPT ![c].pc = "returned",
                                           ![c].positive = positive,
                                           ![c].result = TooFewPositiveCashFlows]
                      ELSE [callers EXCEPT ![c].pc = "valuation",
                                           ![c].positive = positive]
    /\ cash_flows' = CallersListAfter(cash_flows)
    /\ UNCHANGED not_of_callers

\* lines 41 to 76
ComputeValuation(c) ==
    /\ callers[c].pc = "valuation"
    /\ callers' = [callers EXCEPT
                     ![c].pc = "returned",
                     ![c].result = Valuation(callers[c].positive,
                                             callers[c].arguments.terminal_growth_rate,
                                             callers[c].arguments.discount_rate,
                                             callers[c].arguments.forecast_years)]
    /\ UNCHANGED <<cash_flows, not_of_callers>>

CallersNext == \E c \in Callers : CheckLength(c) \/ Filter(c) \/ ComputeValuation(c)

CallersSpec == CallersInit /\ [][CallersNext]_vars

(***************************************************************************)
(* The two probings, each on the first row of what its query answered.     *)
(***************************************************************************)
\* what a cell of the probed rows can hold, after pd.to_numeric: 0 is a number
CashFlowCells == {NaN, 0, Amount(-50), Amount(100)}
GrowthCells == {NaN, 0, Amount(-3), Amount(12)}

\* the rows with any of the fields as columns and any of the cells in them
RowsOver(fields, cells) ==
    UNION {[columns -> cells] : columns \in SUBSET {fields[k] : k \in 1..Len(fields)}}

ProbeInit ==
    /\ pc = "probe"
    /\ \E cf_data \in RowsOver(cf_fields, CashFlowCells) :
       \E growth_data \in RowsOver(growth_columns, GrowthCells) :
          probe = [cf_data |-> cf_data,
                   growth_data |-> growth_data,
                   probed |-> {},
                   annual_cf |-> << >>,
                   growth |-> << >>]
    /\ cash_flows = << >>
    /\ terminal_growth_rate = 0
    /\ discount_rate = 0
    /\ forecast_years = 0
    /\ float_type = "numpy.float64"
    /\ result = NoResult
    /\ years_back = 0
    /\ current_year = 2026
    /\ stock_name = Code
    /\ i = 0
    /\ years_data = << >>
    /\ exception = NoException
    /\ ret = NoResult
    /\ callers = << >>
    /\ fetches = << >>

\* what no probing touches
not_of_probe == <<pc, engine_vars, tool_vars, callers, fetches>>

\* calculate_dcf_valuation: annual_cf = None; for field in cf_fields: ...
ProbeCashFlow ==
    /\ pc = "probe"
    /\ "cf_fields" \notin probe.probed
    /\ probe' = [probe EXCEPT !.annual_cf = AnnualCashFlow(probe.cf_data),
                              !.probed = @ \cup {"cf_fields"}]
    /\ UNCHANGED not_of_probe

\* calculate_peg_ratio: growth_rate = None; for col in growth_columns: ...
ProbeGrowth ==
    /\ pc = "probe"
    /\ "growth_columns" \notin probe.probed
    /\ probe' = [probe EXCEPT !.growth = GrowthRate(probe.growth_data),
                              !.probed = @ \cup {"growth_columns"}]
    /\ UNCHANGED not_of_probe

ProbeNext == ProbeCashFlow \/ ProbeGrowth

ProbeSpec == ProbeInit /\ [][ProbeNext]_vars

(***************************************************************************)
(* What the claims speak of.                                               *)
(***************************************************************************)
Returned == pc = "returned"
IsErrorResult(r) == DOMAIN r = {"error"}
IsRaised(r) == DOMAIN r = {"raised"}
ValuationFields ==
    {"enterprise_value", "pv_cash_flows", "pv_terminal_value", "terminal_value",
     "forecast_growth_rate", "historical_growth", "projected_cash_flows"}
IsValuation(r) == DOMAIN r = ValuationFields

InsufficientDataErrors ==
    {"Insufficient cash flow data for DCF calculation",
     "Insufficient positive cash flow data"}

\* the indices of the strictly positive entries of s
PositiveIndices(s) == {p \in 1..Len(s) : s[p] > 0}
NumPositive(s) == Cardinality(PositiveIndices(s))
FirstPositive(s) == s[CHOOSE p \in PositiveIndices(s) : \A q \in PositiveIndices(s) : p <= q]
LastPositive(s) == s[CHOOSE p \in PositiveIndices(s) : \A q \in PositiveIndices(s) : q <= p]

\* s with its non-positive entries removed, order kept
RECURSIVE WithoutNonPositive(_)
WithoutNonPositive(s) ==
    IF Len(s) = 0 THEN << >>
    ELSE IF s[1] > 0 THEN <<s[1]>> \o WithoutNonPositive(Tail(s))
    ELSE WithoutNonPositive(Tail(s))

\* C1: a list with fewer than 2 elements, or fewer than 2 strictly positive
\* elements, gets an insufficient-data error result that carries no valuation
\* field, whatever terminal_growth_rate, discount_rate and forecast_years are.
C1_InsufficientData ==
    (Returned /\ (Len(cash_flows) < 2 \/ NumPositive(cash_flows) < 2))
        => /\ IsErrorResult(result)
           /\ result.error \in InsufficientDataErrors

\* C1 witness: two elements but one positive, with rates and a horizon that
\* would make the rest of the engine fail.
C1_Witness ==
    /\ Returned
    /\ Len(cash_flows) >= 2
    /\ NumPositive(cash_flows) = 1
    /\ discount_rate = terminal_growth_rate
    /\ forecast_years = 0
    /\ IsErrorResult(result)

\* C2: in every successful result enterprise_value is the float sum
\* pv_cash_flows + pv_terminal_value.
C2_EnterpriseValueIsSum ==
    (Returned /\ IsValuation(result))
        => result.enterprise_value
             = FAdd(result.pv_cash_flows, result.pv_terminal_value)

\* C2 witness: a successful result over several forecast years whose two parts
\* are both non-zero.
C2_Witness ==
    /\ Returned
    /\ IsValuation(result)
    /\ forecast_years >= 2
    /\ IsFinite(result.enterprise_value)
    /\ result.pv_cash_flows > 0
    /\ result.pv_terminal_value > 0
    /\ result.enterprise_value = result.pv_cash_flows + result.pv_terminal_value

\* C3: in every successful result forecast_growth_rate = min(historical_growth,
\* 0.15): never above 0.15, exactly 0.15 for [100, 1000], and historical_growth
\* itself, negative or not, when that is at most 0.15.
C3_GrowthCapped ==
    (Returned /\ IsValuation(result))
        => /\ result.forecast_growth_rate <= 1500
           /\ result.historical_growth > 1500 => result.forecast_growth_rate = 1500
           /\ result.historical_growth <= 1500
                  => result.forecast_growth_rate = result.historical_growth
           /\ cash_flows = <<Amount(100), Amount(1000)>>
                  => /\ result.historical_growth = 9 * One
                     /\ result.forecast_growth_rate = 1500

\* C3 witness: [100, 1000] is capped at 0.15.
C3_Witness ==
    /\ Returned
    /\ IsValuation(result)
    /\ cash_flows = <<Amount(100), Amount(1000)>>
    /\ result.forecast_growth_rate = 1500

\* C3, the other half: a negative historical growth is used as it is.
C3_NegativeGrowthReached ==
    /\ Returned
    /\ IsValuation(result)
    /\ result.historical_growth < 0
    /\ result.forecast_growth_rate = result.historical_growth

\* the engine on other arguments, the float type unchanged
FilteredResult ==
    _calculate_dcf_value(WithoutNonPositive(cash_flows), terminal_growth_rate,
                         discount_rate, forecast_years)

\* C4 as stated: the engine gives S the result it gives S with the
\* non-positive entries removed, for every S.
C4_Original == Returned => result = FilteredResult

\* C4 as amended: the two results are equal when S has at least 2 positive
\* entries or fewer than 2 entries; a longer S with fewer than 2 positive
\* entries gets "Insufficient positive cash flow data" while its filtered
\* list, now shorter than 2, gets "Insufficient cash flow data for DCF
\* calculation".
C4_FilteredSameResult ==
    Returned =>
        IF NumPositive(cash_flows) >= 2 \/ Len(cash_flows) < 2
        THEN result = FilteredResult
        ELSE /\ result = [error |-> "Insufficient positive cash flow data"]
             /\ FilteredResult
                  = [error |-> "Insufficient cash flow data for DCF calculation"]

\* C4 witness: a valuation of a list with a non-positive entry between its
\* positive ones, equal to the valuation of the filtered list.
C4_Witness ==
    /\ Returned
    /\ IsValuation(result)
    /\ \E p \in 2..(Len(cash_flows) - 1) : cash_flows[p] <= 0
    /\ cash_flows[1] > 0
    /\ cash_flows[Len(cash_flows)] > 0
    /\ result = FilteredResult

\* C5: in every successful result projected_cash_flows has forecast_years
\* entries and the k-th is last * (1 + forecast_growth_rate) ** k, last being
\* the last strictly positive value of the input.
C5_Projection ==
    (Returned /\ IsValuation(result))
        => /\ Len(result.projected_cash_flows) = forecast_years
           /\ \A k \in 1..forecast_years :
                result.projected_cash_flows[k]
                  = FMul(LastPositive(cash_flows),
                         FPow(One + result.forecast_growth_rate, k))

\* C5 witness: a projection over several years, growing, from a list whose
\* last element is not positive.
C5_Witness ==
    /\ Returned
    /\ IsValuation(result)
    /\ forecast_years >= 2
    /\ cash_flows[Len(cash_flows)] <= 0
    /\ result.forecast_growth_rate > 0
    /\ result.projected_cash_flows[2] > result.projected_cash_flows[1]
    /\ result.projected_cash_flows[1] > LastPositive(cash_flows)

\* C6: in every successful result historical_growth is the compound annual
\* growth rate over the n positive cash flows: (1 + historical_growth) is the
\* (n-1)-th root of cf[n-1] / cf[0], to the last digit of the float.  Constant
\* positive cash flows give growth 0 and a constant projection, and
\* [100, 110, 121] gives 0.10.
C6_HistoricalGrowthIsCAGR ==
    (Returned /\ IsValuation(result))
        => LET periods == NumPositive(cash_flows) - 1
               ratio == FiniteDiv(LastPositive(cash_flows), FirstPositive(cash_flows))
               h == result.historical_growth
           IN  /\ FPow(One + h, periods) <= ratio
               /\ FPow(One + h + 1, periods) > ratio
               /\ (\A p, q \in PositiveIndices(cash_flows) : cash_flows[p] = cash_flows[q])
                      => /\ h = 0
                         /\ result.forecast_growth_rate = 0
                         /\ \A k \in 1..forecast_years :
                              result.projected_cash_flows[k] = LastPositive(cash_flows)
               /\ WithoutNonPositive(cash_flows) = <<Amount(100), Amount(110), Amount(121)>>
                      => h = 1000

\* C6 witness: [100, 110, 121] has grown by 0.10 a year.
C6_Witness ==
    /\ Returned
    /\ IsValuation(result)
    /\ WithoutNonPositive(cash_flows) = <<Amount(100), Amount(110), Amount(121)>>
    /\ result.historical_growth = 1000

\* C6, the periods counted over the positive entries only: [100, 0, 121] is
\* one period of 0.21.
C6_PositiveOnlyReached ==
    /\ Returned
    /\ IsValuation(result)
    /\ cash_flows = <<Amount(100), 0, Amount(121)>>
    /\ result.historical_growth = 2100

\* C7: in every successful result, with N = forecast_years,
\* terminal_value = projected[N] * (1 + terminal_growth_rate)
\*                  / (discount_rate - terminal_growth_rate),
\* pv_terminal_value = terminal_value / (1 + discount_rate) ** N and
\* pv_cash_flows = the sum over k = 1..N of projected[k] / (1 + discount_rate) ** k.
C7_TerminalAndPresentValues ==
    (Returned /\ IsValuation(result))
        => LET N == forecast_years
               projected == result.projected_cash_flows
           IN  /\ result.terminal_value
                    = FDiv(FMul(projected[N], One + terminal_growth_rate),
                           discount_rate - terminal_growth_rate)
               /\ result.pv_terminal_value
                    = FDiv(result.terminal_value, FPow(One + discount_rate, N))
               /\ result.pv_cash_flows
                    = Sum([k \in 1..N |-> FDiv(projected[k], FPow(One + discount_rate, k))])

\* C7 witness: a finite valuation over several years at a positive discount
\* rate above the terminal growth rate.
C7_Witness ==
    /\ Returned
    /\ IsValuation(result)
    /\ forecast_years >= 2
    /\ discount_rate > terminal_growth_rate
    /\ terminal_growth_rate > 0
    /\ IsFinite(result.terminal_value)
    /\ result.pv_terminal_value < result.terminal_value
    /\ result.pv_cash_flows < Sum(result.projected_cash_flows)

\* the IEEE comparison a < b
FLess(a, b) == a # NaN /\ b # NaN /\ a < b

\* the engine at another discount rate, all else unchanged
ResultAt(other_rate) ==
    _calculate_dcf_value(cash_flows, terminal_growth_rate, other_rate, forecast_years)

\* C8 as stated: for any two discount rates d1 < d2 for which the engine
\* returns a result, enterprise_value(d2) < enterprise_value(d1).  (Read here
\* for finite results only; the infinite ones do not obey it either.)
C8_Original ==
    (Returned /\ IsValuation(result) /\ IsFinite(result.enterprise_value))
        => \A d2 \in DiscountRates :
             (/\ discount_rate < d2
              /\ IsValuation(ResultAt(d2))
              /\ IsFinite(ResultAt(d2).enterprise_value))
                 => ResultAt(d2).enterprise_value < result.enterprise_value

\* C8 as amended: for two discount rates terminal_growth_rate < d1 < d2 the
\* enterprise value does decrease, enterprise_value(d2) < enterprise_value(d1).
C8_DecreasingAboveTerminalRate ==
    (Returned /\ IsValuation(result) /\ terminal_growth_rate < discount_rate)
        => \A d2 \in DiscountRates :
             (discount_rate < d2 /\ IsValuation(ResultAt(d2)))
                 => FLess(ResultAt(d2).enterprise_value, result.enterprise_value)

\* C8 witness: a valuation at a valid discount rate, and a smaller one at a
\* larger rate.
C8_Witness ==
    /\ Returned
    /\ IsValuation(result)
    /\ terminal_growth_rate < discount_rate
    /\ forecast_years >= 2
    /\ \E d2 \in DiscountRates :
         /\ discount_rate < d2
         /\ IsValuation(ResultAt(d2))
         /\ ResultAt(d2).enterprise_value < result.enterprise_value

\* C8, across the terminal growth rate: the value at the smaller discount rate
\* is negative, the value at the larger one positive.
C8_IncreaseReached ==
    /\ Returned
    /\ IsValuation(result)
    /\ discount_rate < terminal_growth_rate
    /\ result.enterprise_value < 0
    /\ \E d2 \in DiscountRates :
         /\ terminal_growth_rate < d2
         /\ IsValuation(ResultAt(d2))
         /\ ResultAt(d2).enterprise_value > 0

\* C9 as stated (read for a forecast of at least one year and a discount rate
\* above -1): with discount_rate <= terminal_growth_rate, equal rates
\* included, and at least 2 positive cash flows the engine returns a result:
\* no error value, no exception.
C9_Original ==
    (/\ Returned
     /\ -One < discount_rate
     /\ discount_rate <= terminal_growth_rate
     /\ NumPositive(cash_flows) >= 2
     /\ forecast_years >= 1)
        => IsValuation(result)

\* C9 as amended: under the same conditions the engine never answers with an
\* error value.  For Python floats the division by zero raises
\* ZeroDivisionError when the rates are equal (line 56) and when
\* discount_rate = -1 (line 61).  Otherwise it returns a result.  With
\* discount_rate < terminal_growth_rate the terminal_value is finite and
\* degenerate: negative when terminal_growth_rate > -1, zero when it is -1,
\* positive when it is below -1.  With equal rates (numpy.float64 only) it is
\* infinite when terminal_growth_rate > -1, minus infinite when it is below
\* -1, and not a number when it is -1.
C9_NoValidation ==
    (/\ Returned
     /\ discount_rate <= terminal_growth_rate
     /\ NumPositive(cash_flows) >= 2
     /\ forecast_years >= 1)
        => /\ ~IsErrorResult(result)
           /\ IF float_type = "float"
                   /\ (discount_rate = terminal_growth_rate \/ discount_rate = -One)
              THEN result = [raised |-> "ZeroDivisionError"]
              ELSE /\ IsValuation(result)
                   /\ discount_rate < terminal_growth_rate
                          => /\ IsFinite(result.terminal_value)
                             /\ -One < terminal_growth_rate
                                    => result.terminal_value < 0
                             /\ terminal_growth_rate = -One
                                    => result.terminal_value = 0
                             /\ terminal_growth_rate < -One
                                    => result.terminal_value > 0
                   /\ discount_rate = terminal_growth_rate
                          => /\ -One < terminal_growth_rate
                                    => result.terminal_value = Inf
                             /\ terminal_growth_rate = -One
                                    => result.terminal_value = NaN
                             /\ terminal_growth_rate < -One
                                    => result.terminal_value = NegInf

\* C9 witness: a silent result with a negative terminal value.
C9_Witness ==
    /\ Returned
    /\ discount_rate < terminal_growth_rate
    /\ -One < terminal_growth_rate
    /\ float_type = "float"
    /\ IsValuation(result)
    /\ result.terminal_value < 0
    /\ result.enterprise_value < 0

\* C9, equal rates: the exception for Python floats, the infinite terminal
\* value for numpy.float64.
C9_EqualRatesRaiseReached ==
    /\ Returned
    /\ discount_rate = terminal_growth_rate
    /\ float_type = "float"
    /\ result = [raised |-> "ZeroDivisionError"]

C9_EqualRatesInfiniteReached ==
    /\ Returned
    /\ discount_rate = terminal_growth_rate
    /\ float_type = "numpy.float64"
    /\ IsValuation(result)
    /\ result.terminal_value = Inf

\* C9, a terminal growth rate below -1: [100, 110] at terminal growth -2 and
\* discount rate -3 over one year has the terminal value +121.
C9_PositiveBelowMinusOneReached ==
    /\ Returned
    /\ cash_flows = <<Amount(100), Amount(110)>>
    /\ terminal_growth_rate = -(One + One)
    /\ discount_rate = -(One + One + One)
    /\ forecast_years = 1
    /\ float_type = "float"
    /\ IsValuation(result)
    /\ result.terminal_value = Amount(121)

\* C9, a terminal growth rate of -1: the terminal value is zero below it and
\* not a number at it.
C9_ZeroAtMinusOneReached ==
    /\ Returned
    /\ terminal_growth_rate = -One
    /\ discount_rate < -One
    /\ IsValuation(result)
    /\ result.terminal_value = 0

C9_NotANumberAtMinusOneReached ==
    /\ Returned
    /\ terminal_growth_rate = -One
    /\ discount_rate = -One
    /\ float_type = "numpy.float64"
    /\ NumPositive(cash_flows) >= 2
    /\ forecast_years >= 1
    /\ IsValuation(result)
    /\ result.terminal_value = NaN

\* what the tool returned begins with "Error: "
IsErrorString(r) == "returned" \in DOMAIN r /\ r.returned[1] = "Error: "
\* what the tool returned is the report
IsReport(r) == "returned" \in DOMAIN r /\ r.returned[1] = "# "

\* C10: whatever the data source does, the tool returns a string and lets no
\* exception through; when it cannot make a report (fewer than 2 years of
\* cash flows, an error result of the engine, an exception in the tool's body
\* or in the engine) the string begins with "Error: ".
C10_ToolReturnsString ==
    /\ "propagated" \notin DOMAIN ret
    /\ pc = "done"
          => /\ IsErrorString(ret) \/ IsReport(ret)
             /\ (\/ Len(cash_flows) < 2
                 \/ IsErrorResult(result)
                 \/ IsRaised(result)
                 \/ exception # NoException) => IsErrorString(ret)
             /\ IsReport(ret)
                  => /\ IsValuation(result)
                     /\ Len(cash_flows) >= 2

\* C10 witness: the engine raises inside the tool and the tool returns the
\* error string.
C10_Witness ==
    /\ pc = "done"
    /\ IsRaised(result)
    /\ exception = "ZeroDivisionError"
    /\ ret.returned[1] = "Error: "

\* C10, the other ways to no report and the report itself.
C10_DataSourceRaisesReached ==
    /\ pc = "done"
    /\ exception \in DataSourceErrors
    /\ IsValuation(result)
    /\ IsErrorString(ret)

C10_EngineErrorReached ==
    /\ pc = "done"
    /\ Len(cash_flows) >= 2
    /\ IsErrorResult(result)
    /\ ret = [returned |-> <<"Error: ", "Insufficient positive cash flow data">>]

C10_TooFewYearsReached ==
    /\ pc = "done"
    /\ years_back >= 2
    /\ Len(cash_flows) = 1
    /\ ret = InsufficientYears

C10_ReportReached ==
    /\ pc = "done"
    /\ IsReport(ret)
    /\ exception = NoException

\* a call of the engine that has returned
HasReturned(c) == callers[c].pc = "returned"
\* a call of the engine that has run line 36
HasFiltered(c) == callers[c].pc \in {"valuation", "returned"} /\ callers[c].result # TooFewCashFlows

\* C11: the engine has no side effects.  No step of a call changes the list
\* the caller handed over (length and elements, the non-positive ones too),
\* whether the call ends in a valuation, an error result or an exception;
\* with calls on one list under way in any order each call returns what it
\* returns alone, and two calls with equal arguments return equal results.
C11_NoSideEffects ==
    /\ [][cash_flows' = cash_flows]_vars
    /\ [](\A c \in Callers : HasReturned(c) => callers[c].result = callers[c].alone)
    /\ [](\A c \in Callers : \A d \in Callers :
            (HasReturned(c) /\ HasReturned(d)
                /\ callers[c].arguments = callers[d].arguments)
                => callers[c].result = callers[d].result)

\* C11 witness: both calls have returned the same valuation from equal
\* arguments, each after dropping a non-positive entry that the caller's list
\* still has.
C11_Witness ==
    /\ HasReturned("a") /\ HasReturned("b")
    /\ callers["a"].arguments = callers["b"].arguments
    /\ IsValuation(callers["a"].result)
    /\ callers["a"].result = callers["b"].result
    /\ Len(callers["a"].positive) < Len(cash_flows)
    /\ NumPositive(cash_flows) < Len(cash_flows)

\* C11, the error path in the middle of another call: one call has returned
\* the error of line 38 while the other has passed line 32 and not yet
\* filtered, and the list still has its non-positive entry.
C11_ErrorPathInterleavedReached ==
    /\ HasReturned("a")
    /\ callers["a"].result = TooFewPositiveCashFlows
    /\ callers["b"].pc = "filter"
    /\ Len(cash_flows) = 2
    /\ NumPositive(cash_flows) = 1

\* C11, an exception: a call has raised, the other is still to compute.
C11_RaisedReached ==
    /\ HasReturned("a")
    /\ IsRaised(callers["a"].result)
    /\ callers["b"].pc = "valuation"
    /\ NumPositive(cash_flows) < Len(cash_flows)

\* the queries of the log that gave a usable value
YieldedIndices == {p \in 1..Len(fetches) : fetches[p].annual_cf # << >>}
NumYielded == Cardinality(YieldedIndices)
\* the (year, value) pairs of those queries
YieldedPairs == {<<fetches[p].year, fetches[p].annual_cf[1]>> : p \in YieldedIndices}
\* the queries that were skipped: empty, raised, or rows without a usable value
SkippedIndices == {p \in 1..Len(fetches) : fetches[p].annual_cf = << >>}
\* the loop over the years has run and ended (with no query logged and an
\* exception handled, get_stock_basic_info raised before the loop)
LoopLeft ==
    /\ pc \in {"price", "done"}
    /\ fetches # << >> \/ exception = NoException

\* C12: whatever the years_back cash-flow queries answer (rows, empty, or an
\* exception), a query that is empty or raises is skipped and the tool goes
\* on: the step stays in the loop and returns nothing, the years
\* current_year - 1 down to current_year - years_back are all queried in the
\* end and the loop is not left before; the collected data has one
\* (year, value) pair for each year that gave a usable value and nothing for
\* the other years; and once the loop is left the tool has returned the
\* string of line 371 exactly when fewer than 2 years gave a value.
C12_SkippedYearsDoNotAbort ==
    /\ [][(pc = "fetch" /\ i < years_back)
            => /\ pc' = "fetch"
               /\ i' = i + 1
               /\ Len(fetches') = Len(fetches) + 1
               /\ ret' = ret
               /\ exception' = exception]_vars
    /\ [][(pc = "fetch" /\ pc' # "fetch") => Len(fetches) = years_back]_vars
    /\ [](pc = "fetch" => Len(fetches) = i)
    /\ [](\A p \in 1..Len(fetches) : fetches[p].year = current_year - p)
    /\ [](/\ Len(years_data) = NumYielded
          /\ Len(cash_flows) = NumYielded
          /\ {years_data[p] : p \in 1..Len(years_data)} = YieldedPairs)
    /\ [](LoopLeft => /\ Len(fetches) = years_back
                      /\ ret = InsufficientYears <=> NumYielded < 2)
    /\ [](ret = InsufficientYears => LoopLeft)
    /\ (pc = "fetch") ~> (Len(fetches) = years_back)

\* C12 witness: the query for the most recent year raised and the next one
\* was empty, the third year was still queried and gave a value, and the
\* tool returned the string of line 371 with that one value collected.
C12_Witness ==
    /\ pc = "done"
    /\ Len(fetches) = 3
    /\ fetches[1].outcome = "raised"
    /\ fetches[2].outcome = "empty"
    /\ fetches[3].outcome = "rows"
    /\ years_data = <<<<fetches[3].year, fetches[3].annual_cf[1]>>>>
    /\ years_data[1][1] = current_year - 3
    /\ ret = InsufficientYears

\* C12, the other side: a year raised, a year had rows with no usable value,
\* two years gave values, and the tool went on to the report.
C12_ReportAfterSkipsReached ==
    /\ pc = "done"
    /\ \E p \in SkippedIndices : fetches[p].outcome = "raised"
    /\ NumYielded = 2
    /\ Len(years_data) = 2
    /\ IsReport(ret)

\* C12: two years gave values, the tool returned an error string, but the
\* one of line 385 and not the one of line 371.
C12_EngineErrorIsAnotherStringReached ==
    /\ pc = "done"
    /\ NumYielded >= 2
    /\ exception = NoException
    /\ IsErrorString(ret)
    /\ ret # InsufficientYears

\* the tool has called the engine
EngineCalled == result # NoResult
\* the years of years_data go up
YearsAscending ==
    \A p \in 1..Len(years_data) : \A q \in 1..Len(years_data) :
        p < q => years_data[p][1] < years_data[q][1]

\* C13: years_data and cash_flows are aligned at every point of the tool:
\* same length, and the p-th (year, value) pair carries the p-th cash flow.
\* Once the engine has been called, the list it was called with is in
\* ascending order of year, oldest first, whichever years gave a value: its
\* p-th entry is the value that the query for the p-th smallest of those
\* years gave.
C13_AscendingAndAligned ==
    /\ Len(years_data) = Len(cash_flows)
    /\ \A p \in 1..Len(years_data) : years_data[p][2] = cash_flows[p]
    /\ EngineCalled
          => /\ result = _calculate_dcf_value(cash_flows, terminal_growth_rate,
                                              discount_rate, DefaultForecastYears)
             /\ YearsAscending
             /\ {years_data[p] : p \in 1..Len(years_data)} = YieldedPairs

\* C13 witness: of three years the middle one gave nothing; the engine was
\* called with the value of the oldest year first and that of the most
\* recent year last, two different values.
C13_Witness ==
    /\ EngineCalled
    /\ Len(fetches) = 3
    /\ YieldedIndices = {1, 3}
    /\ cash_flows = <<fetches[3].annual_cf[1], fetches[1].annual_cf[1]>>
    /\ cash_flows[1] # cash_flows[2]
    /\ years_data = <<<<current_year - 3, cash_flows[1]>>,
                      <<current_year - 1, cash_flows[2]>>>>
    /\ IsValuation(result)

\* C13: in the loop the lists are in the order of the queries, most recent
\* year first.
C13_DescendingInLoopReached ==
    /\ pc = "fetch"
    /\ Len(years_data) = 3
    /\ years_data[1][1] > years_data[2][1]
    /\ years_data[2][1] > years_data[3][1]

\* the row has the field, with a value that is not null
NonNull(row, field) == field \in DOMAIN row /\ row[field] # NaN
\* the row has the field, with a value that is neither null nor 0
NonNullNonZero(row, field) == NonNull(row, field) /\ row[field] # 0

\* the positions in fields of the first field that qualifies: one or none
FirstThat(Qualifies(_, _), row, fields) ==
    {p \in 1..Len(fields) :
        /\ Qualifies(row, fields[p])
        /\ \A q \in 1..(p - 1) : ~Qualifies(row, fields[q])}

\* taken is the value of the first field that qualifies, and nothing if none does
TakesFirst(taken, Qualifies(_, _), row, fields) ==
    /\ FirstThat(Qualifies, row, fields) = {} => taken = << >>
    /\ \A p \in FirstThat(Qualifies, row, fields) :
          /\ taken # << >>
          /\ taken[1] = row[fields[p]]
          /\ Len(taken) = 2 => taken[2] = fields[p]

CashFlowProbed == pc = "probe" /\ "cf_fields" \in probe.probed
GrowthProbed == pc = "probe" /\ "growth_columns" \in probe.probed

\* C14 as claimed: both probings take the value of the first field that is
\* present and not null, and nothing when there is none.
C14_Original ==
    /\ CashFlowProbed
          => TakesFirst(probe.annual_cf, NonNull, probe.cf_data, cf_fields)
    /\ GrowthProbed
          => TakesFirst(probe.growth, NonNull, probe.growth_data, growth_columns)

\* C14: calculate_dcf_valuation takes the annual cash flow from the first of
\* manageCashFlow, operatingCashFlow, NCFFromOA that is present with a value
\* that is not null, 0 included; calculate_peg_ratio takes the growth rate
\* from the first of YOYNI, YOYProfit, YOYEPSBasic that is present with a
\* value that is neither null nor 0, and records that field.  A later
\* candidate is used only when no earlier one qualifies, and None is left
\* when none qualifies.
C14_FirstUsableField ==
    /\ CashFlowProbed
          => TakesFirst(probe.annual_cf, NonNull, probe.cf_data, cf_fields)
    /\ GrowthProbed
          => /\ TakesFirst(probe.growth, NonNullNonZero, probe.growth_data,
                           growth_columns)
             /\ Len(probe.growth) \in {0, 2}

\* C14 witness: the cash-flow row has no manageCashFlow, a 0 in
\* operatingCashFlow and another value in NCFFromOA, and 0 was taken; the
\* growth row has a null YOYNI and values in the other two, and YOYProfit
\* was taken.
C14_Witness ==
    /\ CashFlowProbed /\ GrowthProbed
    /\ DOMAIN probe.cf_data = {"operatingCashFlow", "NCFFromOA"}
    /\ probe.cf_data["operatingCashFlow"] = 0
    /\ probe.cf_data["NCFFromOA"] = Amount(100)
    /\ probe.annual_cf = <<0>>
    /\ DOMAIN probe.growth_data = {"YOYNI", "YOYProfit", "YOYEPSBasic"}
    /\ probe.growth_data["YOYNI"] = NaN
    /\ probe.growth_data["YOYProfit"] = Amount(12)
    /\ probe.growth_data["YOYEPSBasic"] = Amount(-3)
    /\ probe.growth = <<Amount(12), "YOYProfit">>

\* C14: a YOYNI of 0 is passed over for the YOYProfit after it.
C14_ZeroGrowthPassedOverReached ==
    /\ GrowthProbed
    /\ NonNull(probe.growth_data, "YOYNI")
    /\ probe.growth_data["YOYNI"] = 0
    /\ probe.growth = <<Amount(-3), "YOYProfit">>

\* C14: the only growth rates are 0, and no growth rate is taken.
C14_OnlyZeroGrowthReached ==
    /\ GrowthProbed
    /\ DOMAIN probe.growth_data = {"YOYNI", "YOYEPSBasic"}
    /\ probe.growth_data["YOYNI"] = 0
    /\ probe.growth_data["YOYEPSBasic"] = 0
    /\ probe.growth = << >>

\* C14: no field of the cash-flow row qualifies, and no cash flow is taken.
C14_NoCashFlowReached ==
    /\ CashFlowProbed
    /\ DOMAIN probe.cf_data = {"manageCashFlow", "NCFFromOA"}
    /\ probe.annual_cf = << >>

====
